---- MODULE Spec2Model ----
(***************************************************************************)
(* Process supervision of yhinai/CodeVox.                                  *)
(*                                                                         *)
(* Two supervisors live in the repository:                                 *)
(*   - src/src/process.py + the tools of src/src/main.py: handles in the   *)
(*     module dictionary _process_objects, records in Redis hashes         *)
(*     process:<pid>:info, log entries in Redis lists process:<pid>:logs,  *)
(*     one stream_process_output task (the pump) per started child.        *)
(*     Specifications: Spec (children that write to stdout only),          *)
(*     StreamSpec (children that also write to stderr, no restart),        *)
(*     QuerySpec (the answers of the tools), RestartSpec (restart while    *)
(*     the environment is reconfigured), ListSpec and ProbeSpec (list()    *)
(*     interleaved with the other tools and with other processes),         *)
(*     DrainSpec (children blocked on a full stderr pipe), RestartFailSpec *)
(*     (restarts whose start raises), CwdSpec (the working directory of    *)
(*     the host under switch_environment and restart).                     *)
(*   - src/server/engine.py, class Engine: records in Engine.processes.    *)
(*     Specification: EngineSpec.                                          *)
(*                                                                         *)
(* Both run on one asyncio event loop: a coroutine runs atomically from    *)
(* one await to the next, so every action below is the code between two    *)
(* awaits of one coroutine.                                                *)
(***************************************************************************)
EXTENDS Integers, Sequences, FiniteSets, TLC

\* ------------------------------------------------------------- bounds
MaxPid == 2
MaxInst == 2
MaxLines == 1

Pids == 1..MaxPid          \* OS process ids the kernel hands out
Insts == 1..MaxInst        \* children spawned, in spawn order

\* ------------------------------------------------------ program values
\* An optional value: <<>> when absent (Python None, a missing hash field),
\* <<v>> when present.
Absent == <<>>
Some(v) == <<v>>

\* Process.returncode of a child killed by a signal is minus the signal number.
RcTerm == -15
RcKill == -9
ExitCodes == {0, 1}        \* exit statuses a child chooses itself

Projects == {"proj"}

\* run_script values an environment is configured with, and the command
\* run_cmd and restart_cmd build from the run_script they find: the default
\* run.sh when there is none.
Scripts == {"dev.sh"}

Command(s) == IF s = Absent THEN <<"bash", "run.sh">> ELSE <<"bash", s[1]>>

Cmds == {Command(s) : s \in {Absent} \cup {Some(x) : x \in Scripts}}
Cwds == {"/w1"}
Envs == {"e1"}

VARIABLES
  nspawn,    \* number of children spawned so far
  child,     \* the OS side of each spawned child
  other,     \* pids held by processes the supervisor did not spawn
  objs,      \* process.py _process_objects: pid -> spawn (0: no handle)
  info,      \* Redis hash process:<pid>:info
  logs,      \* Redis list process:<pid>:logs
  pump,      \* stream_process_output task of each child
  rst,       \* restart_cmd call in progress
  eprocs,    \* Engine.processes
  erun,      \* position of each Engine.run_command call
  sweep,     \* Engine._cleanup_sync: the children it signalled, once it ran
  script,    \* run_script of the environment of the working directory
  resp,      \* what the last answered tool call returned to its caller
  ls,        \* list_all_processes call in progress
  hcwd,      \* the working directory of the host process (os.getcwd())
  stopReq,   \* history: a stop delivered a signal to this child
  fstop,     \* history: a forced stop on this id has delivered its signal
  gone       \* history: ids a returned restart removed, not handed out since

varsOS == <<nspawn, child, other>>
varsP == <<objs, info, logs, pump, rst>>
varsE == <<eprocs, erun, sweep>>
varsT == <<script, resp, ls, hcwd>>
varsH == <<stopReq, fstop, gone>>
vars == <<nspawn, child, other, objs, info, logs, pump, rst, eprocs, erun,
          sweep, script, resp, ls, hcwd, stopReq, fstop, gone>>

\* ------------------------------------------------------------ records
\* A Redis hash as the fields the code reads and writes; the key exists iff
\* some field is present.  ("pid" and "log_file" are functions of the key and
\* of cwd and are left out.)
NoRec == [cmd |-> Absent, cwd |-> Absent, env |-> Absent, started_at |-> Absent,
          exit_code |-> Absent, ended_at |-> Absent, error |-> Absent]

Exists(p) == info[p] # NoRec

\* errAt: the number of lines the child had written to stdout when it wrote
\* to stderr.  blk: the child is blocked in a write to its full stderr pipe.
NoChild == [pid |-> 0, st |-> "none", rc |-> Absent, nout |-> 0, errw |-> FALSE,
            errAt |-> 0, blk |-> FALSE]

\* art: what this task has appended to the log file run.log of the working
\* directory, in the order of its writes.
NoPump == [pc |-> "none", nread |-> 0, art |-> <<>>]

NoRst == [pc |-> "idle", pid |-> 0, cwd |-> Absent, cmd |-> Absent,
          env |-> Absent, orig |-> Absent]

NoInfo == [cmd |-> Absent, project |-> Absent, started_at |-> Absent,
           status |-> Absent, exit_code |-> Absent]

NoResp == [op |-> "none", id |-> 0, res |-> "none"]

NoList == [pc |-> "idle", keys |-> {}, cur |-> 0, fields |-> NoRec, out |-> {}]

Init ==
  /\ nspawn = 0
  /\ child = [i \in Insts |-> NoChild]
  /\ other = {}
  /\ objs = [p \in Pids |-> 0]
  /\ info = [p \in Pids |-> NoRec]
  /\ logs = [p \in Pids |-> <<>>]
  /\ pump = [i \in Insts |-> NoPump]
  /\ rst = NoRst
  /\ eprocs = [p \in Pids |-> NoInfo]
  /\ erun = [i \in Insts |-> "none"]
  /\ sweep = Absent
  /\ script = Absent
  /\ resp = NoResp
  /\ ls = NoList
  /\ hcwd = "/w1"
  /\ stopReq = [i \in Insts |-> FALSE]
  /\ fstop = [p \in Pids |-> FALSE]
  /\ gone = {}

\* ------------------------------------------------------------- the OS
\* A pid is free once the process that held it has exited and been reaped.
PidFree(p) ==
  /\ p \notin other
  /\ \A i \in Insts : child[i].pid = p => child[i].st = "reaped"

\* Pids that were never handed out are interchangeable: of those the kernel
\* is taken to hand out the lowest.
Used(p) == p \in other \/ \E i \in Insts : child[i].pid = p

CanSpawn(p) ==
  /\ PidFree(p)
  /\ ~Used(p) => \A q \in Pids : q < p => Used(q)

\* The child writes one more line to its stdout pipe.
ChildWrite(i) ==
  /\ child[i].st = "run"
  /\ ~child[i].blk
  /\ child[i].nout < MaxLines
  /\ child' = [child EXCEPT ![i].nout = @ + 1]
  /\ UNCHANGED <<nspawn, other, varsP, varsT, varsE, varsH>>

\* The child writes to its stderr pipe.
ChildWriteErr(i) ==
  /\ child[i].st = "run"
  /\ ~child[i].blk
  /\ ~child[i].errw
  /\ child' = [child EXCEPT ![i].errw = TRUE, ![i].errAt = child[i].nout]
  /\ UNCHANGED <<nspawn, other, varsP, varsT, varsE, varsH>>

\* The child writes more to stderr than the pipe and the buffer of the
\* stream reader hold (the reader stops reading the pipe at twice its limit):
\* what fits is written and the child is blocked in the write until stderr is
\* read.  The pump reads stderr only after the end of the child (PumpEof), so
\* only a signal ends the wait.
ChildBlockErr(i) ==
  /\ child[i].st = "run"
  /\ ~child[i].blk
  /\ child' = [child EXCEPT ![i].blk = TRUE,
                            ![i].errw = TRUE,
                            ![i].errAt = IF child[i].errw THEN @ ELSE child[i].nout]
  /\ UNCHANGED <<nspawn, other, varsP, varsT, varsE, varsH>>

\* A child that has ended: its pipes are at end of file, the event loop's
\* child watcher has reaped it, Process.returncode is rc, the transport is
\* closed, and the kernel may hand the pid out again.
Ended(c, rc) == [c EXCEPT !.st = "reaped", !.rc = Some(rc), !.blk = FALSE]

\* The child exits by itself with status rc.
ChildExit(i, rc) ==
  /\ child[i].st = "run"
  /\ ~child[i].blk
  /\ child' = [child EXCEPT ![i] = Ended(@, rc)]
  /\ UNCHANGED <<nspawn, other, varsP, varsT, varsE, varsH>>

\* ------------------------------------------------- process.py: the pump
Whitespace == {" ", "\t", "\n", "\r"}

\* str.rstrip(): the text without its trailing whitespace.
RECURSIVE Rstrip(_)
Rstrip(s) ==
  IF s = <<>> THEN s
  ELSE IF s[Len(s)] \in Whitespace THEN Rstrip(SubSeq(s, 1, Len(s) - 1))
  ELSE s

\* The k-th line child i writes to stdout, as readline() returns it, and what
\* it writes to stderr.
\* The text of a line is what precedes its newline; the lines of the last
\* child end in a blank.
LineText(i, k) ==
  <<"o", ToString(i), ToString(k)>> \o (IF i = MaxInst THEN <<" ">> ELSE <<>>)

RawLine(i, k) == LineText(i, k) \o <<"\n">>
RawErr(i) == <<"e", ToString(i), "\n">>

StdoutEntry(i, k) == [type |-> "stdout", line |-> Rstrip(RawLine(i, k))]
StderrEntry(i) == [type |-> "stderr", line |-> RawErr(i)]

\* r.hset(key, field, value) and r.rpush(key, value): both create the key
\* when it does not exist.
HSet(rec, field, v) == [rec EXCEPT ![field] = Some(v)]
RPush(list, e) == Append(list, e)

\* write_log(text): the text is appended to the log file and forced to disk
\* before the call returns.  The header and the footer are each written by
\* consecutive calls with no await between them and are one entry here.
WriteLog(file, e) == Append(file, e)

LogHeader(p) == [kind |-> "started", pid |-> p, code |-> Absent, text |-> <<>>]
LogStdout(i, k) == [kind |-> "STDOUT", pid |-> 0, code |-> Absent,
                    text |-> RawLine(i, k)]
LogStderr(i) == [kind |-> "STDERR", pid |-> 0, code |-> Absent,
                 text |-> RawErr(i) \o <<"\n">>]
LogFooter(p, rc) == [kind |-> "exited", pid |-> p, code |-> Some(rc),
                     text |-> <<>>]
LogError == [kind |-> "ERROR", pid |-> 0, code |-> Absent, text |-> <<>>]

\* The pump of child i works on the pid it was started with, whatever the
\* registry holds for that pid by now.
PumpInit(i) ==
  /\ pump[i].pc = "init"
  /\ pump' = [pump EXCEPT ![i].pc = "stdout",
                          ![i].art = WriteLog(@, LogHeader(child[i].pid))]
  /\ UNCHANGED <<varsOS, objs, info, logs, rst, varsE, varsT, varsH>>

\* One turn of "async for line in proc.stdout": the line goes to the log file
\* and is pushed on the Redis list.
PumpLine(i) ==
  /\ pump[i].pc = "stdout"
  /\ pump[i].nread < child[i].nout
  /\ LET k == pump[i].nread + 1
         p == child[i].pid
     IN /\ logs' = [logs EXCEPT ![p] = RPush(@, StdoutEntry(i, k))]
        /\ pump' = [pump EXCEPT ![i].nread = k,
                                ![i].art = WriteLog(@, LogStdout(i, k))]
  /\ UNCHANGED <<varsOS, objs, info, rst, varsE, varsT, varsH>>

\* The mark of completion, first half: hset(..., "exit_code", returncode).
SetExitCode(rec, rc) == HSet(rec, "exit_code", rc)

\* The mark of completion, second half: hset(..., "ended_at", time.time());
\* the time is modelled by the spawn number of the child whose pump wrote it.
SetEndedAt(rec, i) == HSet(rec, "ended_at", i)

\* stdout is at end of file (the child has ended and every line is read);
\* proc.wait() returns at once; all of stderr is read.  When there is stderr
\* output it is pushed as one entry (the next await); when there is none the
\* footer is written and the next await is the hset of exit_code.
PumpEof(i) ==
  /\ pump[i].pc = "stdout"
  /\ child[i].st = "reaped"
  /\ pump[i].nread = child[i].nout
  /\ LET p == child[i].pid
     IN IF child[i].errw
        THEN /\ logs' = [logs EXCEPT ![p] = RPush(@, StderrEntry(i))]
             /\ pump' = [pump EXCEPT ![i].pc = "footer",
                                     ![i].art = WriteLog(@, LogStderr(i))]
             /\ UNCHANGED info
        ELSE /\ info' = [info EXCEPT ![p] = SetExitCode(@, child[i].rc[1])]
             /\ pump' = [pump EXCEPT
                          ![i].pc = "ended",
                          ![i].art = WriteLog(@, LogFooter(p, child[i].rc[1]))]
             /\ UNCHANGED logs
  /\ UNCHANGED <<varsOS, objs, rst, varsE, varsT, varsH>>

\* After the stderr entry: the footer, then the hset of exit_code.
PumpExitCode(i) ==
  /\ pump[i].pc = "footer"
  /\ LET p == child[i].pid
     IN /\ info' = [info EXCEPT ![p] = SetExitCode(@, child[i].rc[1])]
        /\ pump' = [pump EXCEPT
                     ![i].pc = "ended",
                     ![i].art = WriteLog(@, LogFooter(p, child[i].rc[1]))]
  /\ UNCHANGED <<varsOS, objs, logs, rst, varsE, varsT, varsH>>

\* The hset of ended_at, a separate await after the hset of exit_code.
PumpEndedAt(i) ==
  /\ pump[i].pc = "ended"
  /\ LET p == child[i].pid
     IN info' = [info EXCEPT ![p] = SetEndedAt(@, i)]
  /\ pump' = [pump EXCEPT ![i].pc = "done"]
  /\ UNCHANGED <<varsOS, objs, logs, rst, varsE, varsT, varsH>>

\* A statement of the try block raises (a line longer than the stream
\* reader's limit, a failed write to the log file, a failed Redis call): the
\* except block writes the error to the log file and then to the hash, and
\* the task ends; it neither waits for the child nor marks completion.  When
\* the write to the log file raises again (logged = FALSE) the hash is not
\* reached.
Raises(i) ==
  \/ pump[i].pc \in {"init", "footer", "ended"}
  \/ pump[i].pc = "stdout" /\ pump[i].nread < child[i].nout
  \/ pump[i].pc = "stdout" /\ child[i].st = "reaped"

PumpExcept(i, logged) ==
  /\ Raises(i)
  /\ LET p == child[i].pid
     IN info' = IF logged THEN [info EXCEPT ![p] = HSet(@, "error", "raised")]
                ELSE info
  /\ pump' = [pump EXCEPT ![i].pc = "done",
                          ![i].art = IF logged THEN WriteLog(@, LogError)
                                     ELSE @]
  /\ UNCHANGED <<varsOS, objs, logs, rst, varsE, varsT, varsH>>

\* ------------------------------------------ process.py: the operations
\* start_process(command, cwd, env_key): the kernel picks a free pid, the
\* handle is stored under it, hset(key, mapping=...) merges the six fields
\* into the hash of that pid, and the pump task is created (it first runs
\* after start_process has returned).  started_at is modelled by the spawn
\* number.
Spawn(i, p) ==
  [pid |-> p, st |-> "run", rc |-> Absent, nout |-> 0, errw |-> FALSE,
   errAt |-> 0, blk |-> FALSE]

HSetStart(rec, i, cmd, cwd, env) ==
  [rec EXCEPT !.cmd = Some(cmd), !.cwd = Some(cwd), !.env = Some(env),
              !.started_at = Some(i)]

\* create_subprocess_shell raises (FileNotFoundError, NotADirectoryError)
\* when the working directory it is given does not exist.
NoDirs == {"/gone"}

SpawnRaises(cwd) == cwd \in NoDirs

StartRaisesAfterStore(cmd, cwd, env) ==
  /\ SpawnRaises(cwd)
  /\ info' = [info EXCEPT ![1] = HSetStart(@, nspawn + 1, cmd, cwd, env)]
  /\ UNCHANGED <<nspawn, child, objs, pump, fstop>>

\* start_process when the spawn raises: the exception leaves the function
\* before the handle, the hash or the pump task are touched.
StartRaises(cmd, cwd, env) ==
  /\ SpawnRaises(cwd)
  /\ UNCHANGED <<nspawn, child, objs, info, pump, fstop>>

StartProcess(p, cmd, cwd, env) ==
  LET i == nspawn + 1
  IN /\ ~SpawnRaises(cwd)
     /\ nspawn < MaxInst
     /\ CanSpawn(p)
     /\ nspawn' = i
     /\ child' = [child EXCEPT ![i] = Spawn(i, p)]
     /\ objs' = [objs EXCEPT ![p] = i]
     /\ info' = [info EXCEPT ![p] = HSetStart(@, i, cmd, cwd, env)]
     /\ pump' = [pump EXCEPT ![i] = [pc |-> "init", nread |-> 0, art |-> <<>>]]
     /\ fstop' = [fstop EXCEPT ![p] = FALSE]

\* run_cmd: start_process in the current working directory.
RunCmd(p, cmd, cwd, env) ==
  /\ cmd = Command(script)
  /\ StartProcess(p, cmd, cwd, env)
  /\ gone' = gone \ {p}
  /\ UNCHANGED <<other, logs, rst, varsE, varsT, stopReq>>

\* What stop_process(pid, force) returns: "notfound" without a handle,
\* "already" when the hash has an exit_code, "error" when the signal call
\* raises (the transport of a reaped child is closed: ProcessLookupError),
\* "sent" otherwise.
StopRes(p) ==
  IF objs[p] = 0 THEN "notfound"
  ELSE IF info[p].exit_code # Absent THEN "already"
  ELSE IF child[objs[p]].st = "reaped" THEN "error"
  ELSE "sent"

\* proc.kill() / proc.terminate() reach the child only while it runs.
Delivers(p) == StopRes(p) = "sent" /\ child[objs[p]].st = "run"

\* SIGKILL ends the child; SIGTERM ends it unless the child handles it
\* (dies = FALSE).
Signalled(c, force, dies) ==
  IF force THEN Ended(c, RcKill)
  ELSE IF dies THEN Ended(c, RcTerm)
  ELSE c

StopProcess(p, force, dies) ==
  IF Delivers(p)
  THEN /\ child' = [child EXCEPT ![objs[p]] = Signalled(@, force, dies)]
       /\ stopReq' = [stopReq EXCEPT ![objs[p]] = TRUE]
       /\ fstop' = [fstop EXCEPT ![p] = @ \/ force]
  ELSE UNCHANGED <<child, stopReq, fstop>>

\* stop_cmd(pid, force).
StopCmd(p, force, dies) ==
  /\ StopProcess(p, force, dies)
  /\ UNCHANGED <<nspawn, other, varsP, varsT, varsE, gone>>

\* restart_cmd(pid), first await: hgetall of the hash; an empty hash raises
\* ValueError.
RestartFoundNotNone(p) == TRUE

RestartFound(p) == Exists(p)

\* proc_info as restart_cmd keeps it: cwd is proc_info.get('cwd', os.getcwd()).
ReadRecord(p) ==
  [NoRst EXCEPT !.pc = "check",
                !.pid = p,
                !.cwd = IF info[p].cwd = Absent THEN Some(hcwd) ELSE info[p].cwd,
                !.cmd = info[p].cmd,
                !.env = info[p].env]

RestartBegin(p) ==
  /\ rst.pc = "idle"
  /\ rst' = IF RestartFound(p) THEN ReadRecord(p) ELSE rst
  /\ UNCHANGED <<varsOS, objs, info, logs, pump, varsE, varsT, stopReq, fstop, gone>>

\* hget of exit_code; when there is none, stop_process(pid, force=False) and
\* asyncio.sleep(1), during which the other tasks run.
RestartStop(dies) ==
  /\ rst.pc = "check"
  /\ IF info[rst.pid].exit_code = Absent
     THEN StopProcess(rst.pid, FALSE, dies)
     ELSE UNCHANGED <<child, stopReq, fstop>>
  /\ rst' = [rst EXCEPT !.pc = "remove"]
  /\ UNCHANGED <<nspawn, other, objs, info, logs, pump, varsE, varsT, gone>>

\* cleanup_process_object(pid) and r.delete of the hash.
RestartRemove ==
  /\ rst.pc = "remove"
  /\ objs' = [objs EXCEPT ![rst.pid] = 0]
  /\ info' = [info EXCEPT ![rst.pid] = NoRec]
  /\ rst' = [rst EXCEPT !.pc = "dellogs"]
  /\ fstop' = [fstop EXCEPT ![rst.pid] = FALSE]
  /\ UNCHANGED <<varsOS, logs, pump, varsE, varsT, stopReq, gone>>

\* r.delete of the list.
RestartDelLogs ==
  /\ rst.pc = "dellogs"
  /\ logs' = [logs EXCEPT ![rst.pid] = <<>>]
  /\ rst' = [rst EXCEPT !.pc = "start"]
  /\ UNCHANGED <<varsOS, objs, info, pump, varsE, varsT, varsH>>

\* os.chdir(cwd), the command and the label of the environment found there
\* now, start_process, and the new pid is returned.  Of proc_info (kept in
\* rst) only cwd is used.  This is the step as a whole, with no other task
\* running between os.chdir(cwd) and the finally clause, which leaves the
\* host in the directory it was in; RestartStartAwait and RestartFinally are
\* the same code with its await.
RestartStart(p, cmd, env) ==
  /\ rst.pc = "start"
  /\ cmd = Command(script)
  /\ StartProcess(p, cmd, rst.cwd[1], env)
  /\ rst' = NoRst
  /\ gone' = (gone \cup {rst.pid}) \ {p}
  /\ UNCHANGED <<other, logs, varsE, varsT, stopReq>>

\* original_cwd = os.getcwd(), os.chdir(cwd), and start_process up to its
\* last await, the hset of the new record: the host is in the directory of
\* the record while the other tasks run.
RestartStartAwait(p, cmd, env) ==
  /\ rst.pc = "start"
  /\ cmd = Command(script)
  /\ StartProcess(p, cmd, rst.cwd[1], env)
  /\ rst' = [rst EXCEPT !.pc = "finally", !.orig = Some(hcwd)]
  /\ hcwd' = rst.cwd[1]
  /\ gone' = (gone \cup {rst.pid}) \ {p}
  /\ UNCHANGED <<other, logs, varsE, script, resp, ls, stopReq>>

\* start_process returns and the finally clause runs os.chdir(original_cwd).
RestartFinally ==
  /\ rst.pc = "finally"
  /\ hcwd' = rst.orig[1]
  /\ rst' = NoRst
  /\ UNCHANGED <<varsOS, objs, info, logs, pump, varsE, script, resp, ls, varsH>>

\* switch_environment(name): os.chdir(path) to the directory of a configured
\* environment.
HostDirs == {"/w2"}

SwitchEnvironment(d) ==
  /\ d # hcwd
  /\ hcwd' = d
  /\ UNCHANGED <<varsOS, varsP, varsE, script, resp, ls, varsH>>

\* The same step when os.chdir(cwd) or the spawn raises (the directory of the
\* record has been removed since the start, or the kernel refuses another
\* process): the finally clause goes back to the directory and the exception
\* leaves restart_cmd.
RestartStartRaises ==
  /\ rst.pc = "start"
  /\ rst' = NoRst
  /\ UNCHANGED <<varsOS, objs, info, logs, pump, varsE, varsT, varsH>>

\* EnvironmentManager.create: the environment of the working directory is
\* configured with another run_script (none for "").
CreateEnvironment(s) ==
  /\ s # script
  /\ script' = s
  /\ UNCHANGED <<varsOS, varsP, varsE, resp, ls, hcwd, varsH>>

\* r.lrange(key, start, stop) with Redis' indexing: a negative index counts
\* from the end, the range is clipped to the list.
LRange(list, start, stop) ==
  LET n == Len(list)
      a == IF start < 0 THEN (IF n + start < 0 THEN 0 ELSE n + start) ELSE start
      b == IF stop < 0 THEN n + stop ELSE (IF stop > n - 1 THEN n - 1 ELSE stop)
  IN IF a > b THEN <<>> ELSE SubSeq(list, a + 1, b + 1)

\* get_process_logs_data(pid, tail): None for an empty hash, else the entries.
\* tail is None or a number of entries.
MaxTail == 3

Tails == {Absent} \cup {Some(t) : t \in 0..MaxTail}

GetLogsFoundNotNone(p) == TRUE

GetLogsFound(p) == Exists(p)

LogsData(p, tail) ==
  IF Len(logs[p]) = 0 THEN <<>>
  ELSE IF tail # Absent /\ tail[1] # 0 THEN LRange(logs[p], 0 - tail[1], -1)
  ELSE LRange(logs[p], 0, -1)

GetLogs(p, tail) ==
  UNCHANGED vars

\* ------------------------------------- the tools as their caller sees them
\* The same tools with the answer each call gives its caller.
Answer(op, id, res) == resp' = [op |-> op, id |-> id, res |-> res]

\* run_cmd: the pid of the started child, or the exception of the spawn.
RunCmdCall(p, cmd, cwd, env) ==
  /\ cmd = Command(script)
  /\ IF SpawnRaises(cwd)
     THEN /\ StartRaises(cmd, cwd, env)
          /\ Answer("run", 0, "spawnerror")
          /\ UNCHANGED gone
     ELSE /\ StartProcess(p, cmd, cwd, env)
          /\ Answer("run", p, "started")
          /\ gone' = gone \ {p}
  /\ UNCHANGED <<other, logs, rst, varsE, script, ls, hcwd,stopReq>>

\* stop_cmd: the message of stop_process.
StopCmdCall(p, force, dies) ==
  /\ StopProcess(p, force, dies)
  /\ Answer("stop", p, StopRes(p))
  /\ UNCHANGED <<nspawn, other, varsP, varsE, script, ls, hcwd,gone>>

\* restart_cmd up to its first answer: ValueError("... not found") for an
\* empty hash; otherwise the call goes on (RestartStop).
RestartBeginCall(p) ==
  /\ rst.pc = "idle"
  /\ IF RestartFound(p)
     THEN /\ rst' = ReadRecord(p)
          /\ UNCHANGED resp
     ELSE /\ Answer("restart", p, "notfound")
          /\ UNCHANGED rst
  /\ UNCHANGED <<varsOS, objs, info, logs, pump, varsE, script, ls, hcwd,varsH>>

\* get_process_logs: "Process <pid> not found" when get_process_logs_data
\* returns None, the record and the entries otherwise.
GetLogsRes(p, tail) == IF GetLogsFound(p) THEN "found" ELSE "notfound"

GetLogsCall(p, tail) ==
  /\ Answer("logs", p, GetLogsRes(p, tail))
  /\ UNCHANGED <<varsOS, varsP, varsE, script, ls, hcwd,varsH>>

ChildStep ==
  \E i \in Insts :
    \/ ChildWrite(i)
    \/ \E rc \in ExitCodes : ChildExit(i, rc)

PumpStep ==
  \E i \in Insts :
    \/ PumpInit(i)
    \/ PumpLine(i)
    \/ PumpEof(i)
    \/ PumpEndedAt(i)
    \/ \E logged \in BOOLEAN : PumpExcept(i, logged)

ToolStep ==
  \/ \E p \in Pids, cmd \in Cmds, cwd \in Cwds, env \in Envs :
       RunCmd(p, cmd, cwd, env)
  \/ \E p \in Pids, force \in BOOLEAN, dies \in BOOLEAN : StopCmd(p, force, dies)
  \/ \E p \in Pids : RestartBegin(p)
  \/ \E dies \in BOOLEAN : RestartStop(dies)
  \/ RestartRemove
  \/ RestartDelLogs
  \/ \E p \in Pids, cmd \in Cmds, env \in Envs : RestartStart(p, cmd, env)
  \/ \E p \in Pids, tail \in Tails : GetLogs(p, tail)

\* scan_iter("process:*:info") of list_all_processes: the ids a list() that
\* scans now returns an entry for.
ListKeys == {p \in Pids : Exists(p)}

\* The status list_processes prints for an entry: "Stopped" when the hash
\* has an exit_code field, "Running" otherwise.
ListStatus(rec) == IF rec.exit_code # Absent THEN "Stopped" ELSE "Running"

\* The children of Spec write to stdout only.
Next == ChildStep \/ PumpStep \/ ToolStep

Spec == Init /\ [][Next]_vars

\* Children that also write to stderr, started and stopped but not
\* restarted.
StreamStep ==
  \/ \E i \in Insts : ChildWriteErr(i)
  \/ \E i \in Insts : PumpExitCode(i)
  \/ \E p \in Pids, cmd \in Cmds, cwd \in Cwds, env \in Envs :
       RunCmd(p, cmd, cwd, env)
  \/ \E p \in Pids, force \in BOOLEAN, dies \in BOOLEAN : StopCmd(p, force, dies)

StreamNext == ChildStep \/ PumpStep \/ StreamStep

StreamSpec == Init /\ [][StreamNext]_vars

\* Children that write more to stderr than the pipe holds, with pumps none
\* of whose statements raises.
DrainStep ==
  \/ \E i \in Insts : ChildBlockErr(i)
  \/ \E i \in Insts : PumpInit(i)
  \/ \E i \in Insts : PumpLine(i)
  \/ \E i \in Insts : PumpEof(i)
  \/ \E i \in Insts : PumpExitCode(i)
  \/ \E i \in Insts : PumpEndedAt(i)
  \/ \E p \in Pids, cmd \in Cmds, cwd \in Cwds, env \in Envs :
       RunCmd(p, cmd, cwd, env)
  \/ \E p \in Pids, force \in BOOLEAN, dies \in BOOLEAN : StopCmd(p, force, dies)

DrainNext == ChildStep \/ DrainStep

DrainSpec == Init /\ [][DrainNext]_vars

\* ---------------------------------------------------- engine.py: Engine
\* ProcessInfo(pid, cmd, project, started_at): status "running", no exit code.
NewInfo(i, cmd, project) ==
  [cmd |-> Some(cmd), project |-> Some(project), started_at |-> Some(i),
   status |-> Some("running"), exit_code |-> Absent]

Tracked(p) == eprocs[p] # NoInfo

\* run_command up to its wait: the child is spawned and
\* self.processes[proc.pid] is replaced by a new ProcessInfo.
ERunCommand(p, project, cmd) ==
  LET i == nspawn + 1
  IN /\ sweep = Absent
     /\ nspawn < MaxInst
     /\ CanSpawn(p)
     /\ nspawn' = i
     /\ child' = [child EXCEPT ![i] = Spawn(i, p)]
     /\ eprocs' = [eprocs EXCEPT ![p] = NewInfo(i, cmd, project)]
     /\ erun' = [erun EXCEPT ![i] = "waiting"]
     /\ UNCHANGED <<other, sweep, varsP, varsT, varsH>>

\* run_command when the spawn raises: the except clause returns
\* "Failed: ..." and self.processes is as it was.
ERunRaises(project, cmd, cwd) ==
  /\ SpawnRaises(cwd)
  /\ sweep = Absent
  /\ Answer("run_command", 0, "failed")
  /\ UNCHANGED <<varsOS, varsP, varsE, script, ls, hcwd,varsH>>

\* proc.communicate() returns within the five seconds: the entry under the
\* pid becomes "finished" with the return code, whatever that code is.
Finished(rec, rc) == [rec EXCEPT !.status = Some("finished"),
                                 !.exit_code = Some(rc)]

ERunFinished(i) ==
  /\ sweep = Absent
  /\ erun[i] = "waiting"
  /\ child[i].st = "reaped"
  /\ eprocs' = [eprocs EXCEPT ![child[i].pid] = Finished(@, child[i].rc[1])]
  /\ erun' = [erun EXCEPT ![i] = "returned"]
  /\ UNCHANGED <<varsOS, sweep, varsP, varsT, varsH>>

\* asyncio.TimeoutError: the entry becomes "background"; run_command
\* returns and nothing waits for this child any more.
ERunTimeout(i) ==
  /\ sweep = Absent
  /\ erun[i] = "waiting"
  /\ child[i].st = "run"
  /\ eprocs' = [eprocs EXCEPT ![child[i].pid].status = Some("background")]
  /\ erun' = [erun EXCEPT ![i] = "returned"]
  /\ UNCHANGED <<varsOS, sweep, varsP, varsT, varsH>>

\* psutil.Process(pid) finds whatever process holds the pid now.
Holder(p) ==
  IF \E i \in Insts : child[i].pid = p /\ child[i].st = "run"
  THEN CHOOSE i \in Insts : child[i].pid = p /\ child[i].st = "run"
  ELSE 0

PidAlive(p) == Holder(p) # 0 \/ p \in other

\* What Engine.stop_process(pid) returns: "untracked" for a pid that is not
\* in self.processes, "failed" when psutil.Process raises NoSuchProcess,
\* "terminated" after p.terminate().
EStopRes(p) ==
  IF ~Tracked(p) THEN "untracked"
  ELSE IF ~PidAlive(p) THEN "failed"
  ELSE "terminated"

\* Engine.stop_process(pid): SIGTERM to the holder of the pid, then the
\* entry's status becomes "terminated".
EStop(p, dies) ==
  /\ sweep = Absent
  /\ IF EStopRes(p) = "terminated"
     THEN /\ eprocs' = [eprocs EXCEPT ![p].status = Some("terminated")]
          /\ IF Holder(p) # 0
             THEN /\ child' = [child EXCEPT ![Holder(p)] = Signalled(@, FALSE, dies)]
                  /\ stopReq' = [stopReq EXCEPT ![Holder(p)] = TRUE]
                  /\ UNCHANGED other
             ELSE /\ other' = IF dies THEN other \ {p} ELSE other
                  /\ UNCHANGED <<child, stopReq>>
     ELSE UNCHANGED <<eprocs, child, stopReq, other>>
  /\ UNCHANGED <<nspawn, sweep, varsP, varsT, erun, fstop, gone>>

\* Engine._cleanup_sync, registered with atexit: at the exit of the host,
\* SIGTERM to the holder of the pid of every entry whose status is
\* "background"; a failed lookup is passed over.  It runs to its end without
\* an await.  D: the pids whose holder dies of the signal.  After it the
\* host is gone and no Engine method runs.
Swept == {p \in Pids : /\ Tracked(p)
                       /\ eprocs[p].status = Some("background")
                       /\ PidAlive(p)}

ECleanupSync(D) ==
  LET S == {Holder(p) : p \in Swept} \ {0}
  IN /\ sweep = Absent
     /\ sweep' = Some(S)
     /\ child' = [i \in Insts |->
                    IF i \in S /\ child[i].pid \in D
                    THEN Signalled(child[i], FALSE, TRUE) ELSE child[i]]
     /\ other' = other \ (Swept \cap D)
     /\ stopReq' = [i \in Insts |-> stopReq[i] \/ i \in S]
     /\ UNCHANGED <<nspawn, eprocs, erun, varsP, varsT, fstop, gone>>

\* A process the supervisor did not spawn takes a free pid, or ends.
OtherSpawn(p) ==
  /\ CanSpawn(p)
  /\ other' = other \cup {p}
  /\ UNCHANGED <<nspawn, child, varsP, varsT, varsE, varsH>>

OtherExit(p) ==
  /\ p \in other
  /\ other' = other \ {p}
  /\ UNCHANGED <<nspawn, child, varsP, varsT, varsE, varsH>>

EngineStep ==
  \/ \E p \in Pids, project \in Projects, cmd \in Cmds :
       ERunCommand(p, project, cmd)
  \/ \E i \in Insts : ERunFinished(i)
  \/ \E i \in Insts : ERunTimeout(i)
  \/ \E p \in Pids, dies \in BOOLEAN : EStop(p, dies)
  \/ \E p \in Pids : OtherSpawn(p)
  \/ \E p \in Pids : OtherExit(p)
  \/ \E D \in SUBSET Pids : ECleanupSync(D)

EngineNext == ChildStep \/ EngineStep

EngineSpec == Init /\ [][EngineNext]_vars

\* Children that print nothing, with the answers of the calls.
QueryStep ==
  \/ \E p \in Pids, cmd \in Cmds, cwd \in Cwds \cup NoDirs, env \in Envs :
       RunCmdCall(p, cmd, cwd, env)
  \/ \E p \in Pids, force \in BOOLEAN, dies \in BOOLEAN :
       StopCmdCall(p, force, dies)
  \/ \E p \in Pids : RestartBeginCall(p)
  \/ \E dies \in BOOLEAN : RestartStop(dies)
  \/ RestartRemove
  \/ RestartDelLogs
  \/ \E p \in Pids, cmd \in Cmds, env \in Envs : RestartStart(p, cmd, env)
  \/ \E p \in Pids, tail \in Tails : GetLogsCall(p, tail)
  \/ \E project \in Projects, cmd \in Cmds, cwd \in NoDirs :
       ERunRaises(project, cmd, cwd)

QuietStep ==
  \E i \in Insts :
    \/ \E rc \in ExitCodes : ChildExit(i, rc)
    \/ PumpInit(i)
    \/ PumpEof(i)
    \/ PumpEndedAt(i)

QueryNext == QuietStep \/ QueryStep

QuerySpec == Init /\ [][QueryNext]_vars

\* ------------------------------------------------- process.py: listing
\* list_all_processes.  scan_iter gives the keys that exist when it scans.
ListScan ==
  /\ ls.pc = "idle"
  /\ ls' = [NoList EXCEPT !.pc = IF ListKeys = {} THEN "done" ELSE "hgetall",
                          !.keys = ListKeys]
  /\ UNCHANGED <<varsOS, varsP, varsE, script, resp, hcwd, varsH>>

\* For the next key: hgetall of the hash, as it is by now.
ListHGetAll(p) ==
  /\ ls.pc = "hgetall"
  /\ p \in ls.keys
  /\ ls' = [ls EXCEPT !.pc = "llen", !.cur = p, !.fields = info[p]]
  /\ UNCHANGED <<varsOS, varsP, varsE, script, resp, hcwd, varsH>>

\* os.kill(pid, 0) succeeds when any process holds the pid.
Probe(p) == PidAlive(p)

\* llen of the list, the probe, and the entry is stored under the pid.
ListEntry(p, fields) ==
  [pid |-> p, fields |-> fields, log_count |-> Len(logs[p]),
   is_alive |-> Probe(p)]

ListLLen ==
  /\ ls.pc = "llen"
  /\ ls' = [ls EXCEPT !.pc = IF ls.keys = {ls.cur} THEN "done" ELSE "hgetall",
                      !.keys = @ \ {ls.cur},
                      !.cur = 0,
                      !.fields = NoRec,
                      !.out = @ \cup {ListEntry(ls.cur, ls.fields)}]
  /\ UNCHANGED <<varsOS, varsP, varsE, script, resp, hcwd, varsH>>

\* The dictionary is returned to list_processes.
ListReturn ==
  /\ ls.pc = "done"
  /\ ls' = NoList
  /\ UNCHANGED <<varsOS, varsP, varsE, script, resp, hcwd, varsH>>

ListCall ==
  \/ ListScan
  \/ \E p \in Pids : ListHGetAll(p)
  \/ ListLLen
  \/ ListReturn

\* list() while children that print nothing are started and restarted.
ListStep ==
  \/ \E p \in Pids, cmd \in Cmds, cwd \in Cwds, env \in Envs :
       RunCmd(p, cmd, cwd, env)
  \/ \E p \in Pids : RestartBegin(p)
  \/ \E dies \in BOOLEAN : RestartStop(dies)
  \/ RestartRemove
  \/ RestartDelLogs
  \/ \E p \in Pids, cmd \in Cmds, env \in Envs : RestartStart(p, cmd, env)

ListNext == QuietStep \/ ListCall \/ ListStep

ListSpec == Init /\ [][ListNext]_vars

\* list() while children are started and stopped and other processes of
\* the host come and go.
ProbeStep ==
  \/ \E p \in Pids, cmd \in Cmds, cwd \in Cwds, env \in Envs :
       RunCmd(p, cmd, cwd, env)
  \/ \E p \in Pids, force \in BOOLEAN, dies \in BOOLEAN : StopCmd(p, force, dies)
  \/ \E p \in Pids : OtherSpawn(p)
  \/ \E p \in Pids : OtherExit(p)

ProbeNext == QuietStep \/ ListCall \/ ProbeStep

ProbeSpec == Init /\ [][ProbeNext]_vars

\* Restarts of children that print nothing, while the environment is
\* reconfigured.
RestartStep ==
  \/ \E p \in Pids, cmd \in Cmds, cwd \in Cwds, env \in Envs :
       RunCmd(p, cmd, cwd, env)
  \/ \E s \in {Absent} \cup {Some(x) : x \in Scripts} : CreateEnvironment(s)
  \/ \E p \in Pids : RestartBegin(p)
  \/ \E dies \in BOOLEAN : RestartStop(dies)
  \/ RestartRemove
  \/ RestartDelLogs
  \/ \E p \in Pids, cmd \in Cmds, env \in Envs : RestartStart(p, cmd, env)

RestartNext == QuietStep \/ RestartStep

RestartSpec == Init /\ [][RestartNext]_vars

\* Starts in the directory the host is in, restarts with their await, and
\* changes of directory, for children that print nothing.
CwdStep ==
  \/ \E p \in Pids, cmd \in Cmds, env \in Envs : RunCmd(p, cmd, hcwd, env)
  \/ \E d \in Cwds \cup HostDirs : SwitchEnvironment(d)
  \/ \E p \in Pids : RestartBegin(p)
  \/ \E dies \in BOOLEAN : RestartStop(dies)
  \/ RestartRemove
  \/ RestartDelLogs
  \/ \E p \in Pids, cmd \in Cmds, env \in Envs : RestartStartAwait(p, cmd, env)
  \/ RestartFinally

CwdNext == QuietStep \/ CwdStep

CwdSpec == Init /\ [][CwdNext]_vars

\* Restarts whose start may fail.
RestartFailNext == RestartNext \/ RestartStartRaises

RestartFailSpec == Init /\ [][RestartFailNext]_vars

\* ------------------------------------------------------------ claims
IsPrefix(a, b) == Len(a) <= Len(b) /\ SubSeq(b, 1, Len(a)) = a

\* The child whose start wrote the record now under pid p (0: none did).
Owner(p) == IF info[p].started_at = Absent THEN 0 ELSE info[p].started_at[1]

\* C1: in every reachable state every record that list or getLogs can read
\* has an exit code if and only if it has an end time.
C1_ExitCodeIffEndedAt ==
  \A p \in Pids :
    Exists(p) => (info[p].exit_code # Absent <=> info[p].ended_at # Absent)

\* C2: a record that was Running when stop delivered its signal gets an exit
\* code and an end time.  In the form a finite run refutes: once the child
\* has ended on a delivered stop and its pump has run to its end, the
\* child's record, when it is still in the registry, has both fields.
C2_StoppedBecomesTerminal ==
  \A i \in Insts :
    (/\ stopReq[i]
     /\ child[i].st = "reaped"
     /\ pump[i].pc = "done"
     /\ Owner(child[i].pid) = i)
    => /\ info[child[i].pid].exit_code # Absent
       /\ info[child[i].pid].ended_at # Absent

\* Engine's terminal statuses.
ETerminal(p) ==
  Tracked(p) /\ eprocs[p].status[1] \in {"finished", "terminated"}

\* C3: stop on a record that already has a terminal status returns
\* AlreadyStopped, delivers no signal and leaves every field of the record
\* as it was.
C3_StopOnTerminalIsAlreadyStopped ==
  [][\A p \in Pids :
       ETerminal(p) =>
         /\ EStopRes(p) = "already"
         /\ (\E dies \in BOOLEAN : EStop(p, dies))
              => UNCHANGED <<eprocs, child, other>>]_vars

\* C4: once a forced stop on an id has returned, a further stop on the same
\* id returns AlreadyStopped: it neither delivers a signal nor reports a
\* signal error, whatever the pump has done in between.
C4_SecondStopAlreadyStopped ==
  \A p \in Pids : fstop[p] => StopRes(p) = "already" /\ ~Delivers(p)

\* C5: for an id that stays in the registry, every full getLogs read is a
\* prefix of every later one: no step removes, reorders or rewrites an entry.
C5_LogsAppendOnly ==
  [][\A p \in Pids :
       (Exists(p) /\ Exists(p)')
         => IsPrefix(LogsData(p, Absent), LogsData(p, Absent)')]_vars

\* C6: after restart(id) has returned a new id, no later list() has an entry
\* for id: every id in gone (removed by a restart that returned another id,
\* and not handed out by a start since) has no key for list to scan.
C6_RestartedIdAbsent ==
  [][\A p \in gone' : p \notin ListKeys']_vars

\* C7: when start returns id p, the registry holds for p a fresh Running
\* record: the fields of this call, no exit code, no end time, no error, and
\* an empty log sequence; also when p was the id of an earlier record.
C7_StartCreatesFreshRecord ==
  [][nspawn' # nspawn =>
       LET i == nspawn'
           p == child'[i].pid
       IN /\ info'[p].started_at = Some(i)
          /\ info'[p].cmd # Absent /\ info'[p].cwd # Absent
          /\ info'[p].env # Absent
          /\ info'[p].exit_code = Absent
          /\ info'[p].ended_at = Absent
          /\ info'[p].error = Absent
          /\ logs'[p] = <<>>]_vars

\* C8: the exit code and the end time of a record are written at most once
\* and only by the record's own pump: once set, no step changes or clears
\* them while the record is in the registry.
C8_ExitWrittenOnceByOwnPump ==
  [][\A p \in Pids :
       (Exists(p) /\ Exists(p)') =>
         /\ info[p].exit_code # Absent => info'[p].exit_code = info[p].exit_code
         /\ info[p].ended_at # Absent => info'[p].ended_at = info[p].ended_at
         /\ (info'[p].exit_code # info[p].exit_code
               \/ info'[p].ended_at # info[p].ended_at)
              => Owner(p) # 0 /\ pump'[Owner(p)] # pump[Owner(p)]]_vars

\* C9: of two terminal records with a nonzero exit code, one whose child
\* was sent a stop while Running (Terminated) and one for which no stop was
\* requested (Failed), the statuses differ: the record alone tells them apart.
C9_StopDistinguishable ==
  \A p, q \in Pids :
    (/\ Owner(p) # 0 /\ Owner(q) # 0
     /\ info[p].exit_code \notin {Absent, Some(0)}
     /\ info[q].exit_code \notin {Absent, Some(0)}
     /\ stopReq[Owner(p)] /\ ~stopReq[Owner(q)])
    => ListStatus(info[p]) # ListStatus(info[q])

\* C10: the status reported for a record is the function of the exit code
\* the data model gives: Running exactly while no exit code is set, Finished
\* exactly when the exit code is 0, and, once run_command has returned, no
\* running value for a child that has been reaped.
C10_StatusFollowsExitCode ==
  \A p \in Pids :
    Tracked(p) =>
      /\ eprocs[p].status[1] \in {"running", "background"}
           <=> eprocs[p].exit_code = Absent
      /\ eprocs[p].status[1] = "finished" <=> eprocs[p].exit_code = Some(0)
      /\ (/\ eprocs[p].status[1] \in {"running", "background"}
          /\ erun[eprocs[p].started_at[1]] = "returned")
           => child[eprocs[p].started_at[1]].st = "run"

\* C11: a stream error does not keep the pump from marking completion: once
\* the child has ended and its pump has run to its end with an error
\* recorded, the child's record has an exit code and an end time.
C11_StreamErrorStillTerminal ==
  \A i \in Insts :
    (/\ child[i].st = "reaped"
     /\ pump[i].pc = "done"
     /\ Owner(child[i].pid) = i
     /\ info[child[i].pid].error # Absent)
    => /\ info[child[i].pid].exit_code # Absent
       /\ info[child[i].pid].ended_at # Absent

\* The stdout entries of a sequence of log entries, in order.
StdoutLines(es) ==
  LET RECURSIVE Sel(_)
      Sel(k) == IF k = 0 THEN <<>>
                ELSE IF es[k].type = "stdout" THEN Append(Sel(k - 1), es[k].line)
                ELSE Sel(k - 1)
  IN Sel(Len(es))

\* C12: once the record of an ended child is terminal, the stdout entries of
\* getLogs are the lines the child wrote, each with its text, in the order
\* written, and the record of a child that exited with 0 has exit code 0.
C12_TerminalLogsComplete ==
  \A p \in Pids :
    LET i == Owner(p)
    IN (/\ i # 0
        /\ child[i].st = "reaped"
        /\ info[p].exit_code # Absent /\ info[p].ended_at # Absent)
       => /\ StdoutLines(LogsData(p, Absent))
               = [k \in 1..child[i].nout |-> LineText(i, k)]
          /\ child[i].rc = Some(0) => info[p].exit_code = Some(0)

\* C16: for a known id with n entries, getLogs with tail t returns the last
\* min(t, n) entries in order, and all n entries without a tail.
LastEntries(es, t) ==
  IF t >= Len(es) THEN es ELSE SubSeq(es, Len(es) - t + 1, Len(es))

C16_TailReturnsLastEntries ==
  \A p \in Pids :
    Exists(p) =>
      /\ LogsData(p, Absent) = logs[p]
      /\ \A t \in 0..MaxTail : LogsData(p, Some(t)) = LastEntries(logs[p], t)

\* An id that is not in the registry: no hash and no handle.
Unknown(p) == ~Exists(p) /\ objs[p] = 0

\* C13: getLogs for an id without a record answers NotFound, with neither
\* record nor entries, and changes nothing in the registry.
C13_UnknownLogsNotFound ==
  [][\A p \in Pids, tail \in Tails :
       (~Exists(p) /\ GetLogsCall(p, tail)) =>
         /\ resp'.res = "notfound"
         /\ UNCHANGED <<varsOS, varsP, varsE>>]_vars

\* getLogs has answered NotFound for an id that a restart removed.
C13_Witness ==
  /\ resp.op = "logs" /\ resp.res = "notfound"
  /\ resp.id \in gone /\ ~Exists(resp.id)

\* C14: stop and restart on an id that is not in the registry answer
\* NotFound, deliver no signal, spawn nothing and leave records, handles and
\* log sequences as they were.
C14_UnknownStopRestartNotFound ==
  [][\A p \in Pids :
       Unknown(p) =>
         /\ (\E force \in BOOLEAN, dies \in BOOLEAN : StopCmdCall(p, force, dies))
              => /\ resp'.res = "notfound"
                 /\ UNCHANGED <<varsOS, varsP, varsE>>
         /\ RestartBeginCall(p)
              => /\ resp'.res = "notfound"
                 /\ UNCHANGED <<varsOS, varsP, varsE>>]_vars

\* restart has answered NotFound for an id that an earlier restart removed,
\* while another record is in the registry.
C14_Witness ==
  /\ resp.op = "restart" /\ resp.res = "notfound"
  /\ resp.id \in gone /\ Unknown(resp.id)
  /\ \E q \in Pids : Exists(q)

\* C15: a start whose spawn fails reports the error and leaves the registry
\* as it was: no record, handle, log sequence or pump is created.
C15_SpawnErrorLeavesRegistry ==
  [][/\ \A p \in Pids, cmd \in Cmds, cwd \in NoDirs, env \in Envs :
          RunCmdCall(p, cmd, cwd, env)
            => /\ resp'.res = "spawnerror"
               /\ UNCHANGED <<varsOS, varsP, varsE>>
     /\ \A project \in Projects, cmd \in Cmds, cwd \in NoDirs :
          ERunRaises(project, cmd, cwd)
            => /\ resp'.res = "failed"
               /\ UNCHANGED <<varsOS, varsP, varsE>>]_vars

\* A start has failed to spawn while a record was in the registry.
C15_Witness ==
  /\ resp.op = "run" /\ resp.res = "spawnerror"
  /\ \E q \in Pids : Exists(q)

\* C17: the record restart creates has the command, the working directory
\* and the label that the record of the restarted id had when restart read
\* it, whatever the environment is configured with at the time of the start.
C17_RestartSameParameters ==
  [][(rst.pc = "start" /\ rst'.pc = "idle") =>
       LET p == child'[nspawn'].pid
       IN /\ info'[p].cmd = rst.cmd
          /\ info'[p].cwd = rst.cwd
          /\ info'[p].env = rst.env]_vars

\* C18: the shutdown sweep signals every child of a record of the registry
\* that is running when the sweep runs, whatever the status stored in the
\* record.
C18_SweepReachesEveryRunningChild ==
  [][(sweep = Absent /\ sweep' # Absent) =>
       \A i \in Insts :
         (/\ child[i].st = "run"
          /\ eprocs[child[i].pid].started_at = Some(i))
         => i \in sweep'[1]]_vars

\* C19: a list() result is a copy of the registry at one instant of the
\* call.  At any instant every id of the registry has its record's fields,
\* so a result has no entry without fields.
C19_ListIsSnapshot ==
  ls.pc = "done" => \A e \in ls.out : e.fields # NoRec

\* C20: the liveness annotation of an entry is true exactly when the child
\* that the start of the entry's record spawned is alive at the probe (for
\* an entry whose record is still the one in the registry at the probe).
C20_AliveIffOwnChildRuns ==
  [][(ls.pc = "llen" /\ ls'.pc # "llen" /\ info[ls.cur] = ls.fields) =>
       LET e == ListEntry(ls.cur, ls.fields)
           i == IF e.fields.started_at = Absent THEN 0
                ELSE e.fields.started_at[1]
       IN /\ e \in ls'.out
          /\ e.is_alive <=> (i # 0 /\ child[i].st = "run")]_vars

\* The place of entry e in the list es (0: not there).
Index(es, e) ==
  IF \E n \in 1..Len(es) : es[n] = e
  THEN CHOOSE n \in 1..Len(es) : es[n] = e
  ELSE 0

\* C21: the entries of one process are in the order in which the child wrote
\* the lines, across both streams: when the child wrote to stderr before it
\* wrote line k to stdout, the stderr entry precedes the entry of line k.
C21_EntriesInArrivalOrder ==
  \A i \in Insts : \A k \in 1..MaxLines :
    LET es == logs[child[i].pid]
        a == Index(es, StderrEntry(i))
        b == Index(es, StdoutEntry(i, k))
    IN (child[i].errw /\ child[i].errAt < k /\ a # 0 /\ b # 0) => a < b

\* C22: the pump never leaves a child blocked for ever in a write to stderr:
\* in every state in which a child is blocked in such a write, its pump has a
\* step to take (there is no state in which the child waits for the pump to
\* read stderr and the pump waits for the child to write or close stdout).
C22_PumpDrainsBlockedChild ==
  \A i \in Insts :
    child[i].blk =>
      ENABLED (\/ PumpInit(i) \/ PumpLine(i) \/ PumpEof(i)
               \/ PumpExitCode(i) \/ PumpEndedAt(i))

\* C23: the stop that restart issues to a record that is still Running is a
\* forced one: when that stop reaches the old child, the child is ended by
\* the kill signal.
C23_RestartStopIsForced ==
  [][(/\ rst.pc = "check" /\ rst'.pc = "remove"
      /\ info[rst.pid].exit_code = Absent
      /\ Delivers(rst.pid))
     => /\ fstop'[rst.pid]
        /\ child'[objs[rst.pid]].rc = Some(RcKill)]_vars

\* C24: the ids that have a record and the ids that have a handle change
\* only in a step of start, which adds the id of the new child, and in the
\* removing step of restart, which removes the restarted id; every other step
\* (stop, getLogs, the steps of the pumps) leaves both sets as they are.
C24_IdsChangeOnlyByStartAndRemove ==
  [][\A p \in Pids :
       (\/ Exists(p) # (info'[p] # NoRec)
        \/ (objs[p] # 0) # (objs'[p] # 0))
       => \/ /\ nspawn' = nspawn + 1
             /\ child'[nspawn'].pid = p
             /\ info'[p] # NoRec /\ objs'[p] # 0
          \/ /\ rst.pc = "remove" /\ rst'.pc = "dellogs"
             /\ rst.pid = p
             /\ info'[p] = NoRec /\ objs'[p] = 0]_vars

\* C25: whenever a record is terminal, the log file holds the header of the
\* record's run, written before every output line of that run, and a footer
\* of that run with the record's exit code, written after every output line
\* of that run.
C25_TerminalRecordHasHeaderAndFooter ==
  \A p \in Pids :
    (/\ info[p].exit_code # Absent /\ info[p].ended_at # Absent
     /\ Owner(p) # 0)
    => LET a == pump[Owner(p)].art
           h == Index(a, LogHeader(p))
           f == Index(a, LogFooter(p, info[p].exit_code[1]))
       IN /\ h # 0 /\ f # 0
          /\ \A n \in 1..Len(a) :
               a[n].kind \in {"STDOUT", "STDERR"} => h < n /\ n < f

\* C26: in every state in which no restart is in progress (a start is one
\* step) an id has a handle if and only if it has a record, and so stop
\* reports "not found" for an id exactly when getLogs does.
C26_HandleIffRecord ==
  rst.pc = "idle" =>
    \A p \in Pids :
      /\ objs[p] # 0 <=> Exists(p)
      /\ \A tail \in Tails :
           StopRes(p) = "notfound" <=> GetLogsRes(p, tail) = "notfound"

\* The process that holds pid p is the child that the start of the entry now
\* under p spawned.
OwnChildHolds(p) == Holder(p) # 0 /\ eprocs[p].started_at = Some(Holder(p))

\* C27: a termination signal goes only to the child that the start of the
\* signalled entry spawned and that has not been reaped: neither a stop that
\* delivers its signal nor the shutdown sweep signals a pid that another
\* process holds.
C27_SignalsOnlyOwnChild ==
  [][/\ \A p \in Pids :
          (EStopRes(p) = "terminated" /\ \E dies \in BOOLEAN : EStop(p, dies))
          => OwnChildHolds(p)
     /\ (\E D \in SUBSET Pids : ECleanupSync(D))
          => \A p \in Swept : OwnChildHolds(p)]_vars

\* C28: restart leaves no child that runs and cannot be reached: every child
\* that is still running (one that a kill signal reached is not) has its
\* handle in the registry, through which stop can signal it.
C28_RunningChildHasHandle ==
  \A i \in Insts :
    child[i].st = "run" => objs[child[i].pid] = i

\* C29: restart is all or nothing: when its start spawns, the record of the
\* new id is in the registry; when its start fails, the record that restart
\* read and its handle are in the registry as before the call.
C29_RestartAllOrNothing ==
  [][(rst.pc = "start" /\ rst'.pc = "idle") =>
       IF nspawn' = nspawn + 1
       THEN info'[child'[nspawn'].pid] # NoRec
       ELSE /\ info'[rst.pid].cmd = rst.cmd
            /\ info'[rst.pid].cwd = rst.cwd
            /\ objs'[rst.pid] # 0]_vars

\* C30: restart does not change the working directory of the host as any
\* other operation sees it: between any two steps of the tools the directory
\* is the one the last switch_environment set, so a start that runs while a
\* restart is in progress does not find the directory of the restarted
\* record in place of it.
C30_HostCwdOnlyBySwitch ==
  [][hcwd' # hcwd => \E d \in Cwds \cup HostDirs : SwitchEnvironment(d)]_vars

====
